---- MODULE Spec2Model ----
(***************************************************************************)
(* The synchronization-and-snapshot pipeline of symmio-analytics:          *)
(* fetch_snapshot / sync_data / do_fetch_snapshot of                       *)
(* back_app/services/snapshot/snapshot_job.py, run against a chain whose   *)
(* head advances and an indexer that follows it.                           *)
(*                                                                         *)
(* One pipeline instance of one tenant is modelled (the caller serializes  *)
(* the runs of a tenant).  The handlers are split at their external I/O    *)
(* boundaries (chain-head reads, indexer queries, reconciler calls), where *)
(* the chain and the indexer may move on.                                  *)
(***************************************************************************)
EXTENDS Integers, Sequences, FiniteSets, TLC

\* ---------------------------------------------------------------- bounds
\* The chain head at the start, and the highest head the model follows.
InitHead == 4
MaxHead == 6
\* The indexer is at most MaxBehind blocks behind the head at the start.
MaxBehind == 2
\* The persisted snapshotBlockLag at the start ranges over 0..MaxInitLag.
MaxInitLag == 3
\* The deepest recursion of sync_data the model follows.
MaxRestarts == 2
\* the latest block time a snapshot is taken at (times count minutes)
MaxTime == 5
\* how many rows the table binance_income holds at most
MaxIncomeRows == 2
\* how many rows the table stats_bot_message holds at most
MaxMessages == 2

\* How many records an indexer holds at most.
MaxRecords == 4
\* The page size of the entity synchronizer's queries.
PageSize == 2
\* How many times the synchronizer is invoked for one entity type at most.
MaxCalls == 2

\* ------------------------------------------------------- program settings
\* config.settings (imported at snapshot_job.py:21-23): the floor of the lag and
\* the step by which a successful sync tightens it.
SNAPSHOT_BLOCK_LAG == 2
SNAPSHOT_BLOCK_LAG_STEP == 1
CHAIN_ONLY == FALSE
\* hedger_binance_snapshot.py 87: datetime.timedelta(minutes=3)
StatsWindow == 3

\* context.affiliates, context.hedgers, context.liquidators
Affiliates == <<"a1">>
Hedgers == <<"h1", "h2">>
Liquidators == <<"l1">>
\* hedger_context.has_binance_keys()
has_binance_keys(h) == h = "h1"

Max(a, b) == IF a >= b THEN a ELSE b

VARIABLES
    head,           \* the chain's latest block number (Block.latest)
    indexed,        \* the last block the indexer has indexed
    cfg,            \* the persisted RuntimeConfiguration row (committed)
    pc,             \* where the pipeline run is
    get_snapshot,   \* context.get_snapshot of the current run
    config,         \* the row as loaded by the running function (load_config)
    sync_block,     \* sync_data's sync_block.number (0: none yet)
    idx,            \* the next entity type of the pass (1..7)
    synced,         \* the sync calls that returned in the current pass
    e,              \* the exception caught at line 55
    restarts,       \* how many times sync_data has called itself in this run
    lag,            \* the local `lag` of the recovery (line 59)
    usedLag,        \* the lag the latest pass subtracted from the head
    raisedAt,       \* which call of lines 48-54 raised the caught exception
    returned,       \* the block number sync_data returned (0: nothing)
    step,           \* the next reconciler call of the snapshot pass
    ran,            \* the reconciler calls that returned in this snapshot pass
    raised,         \* the exception that ended the run ("none": none)
    entities,                \* the rows of one entity table (models.py 40-243)
    affiliate_snapshot,      \* the rows of table affiliate_snapshot
    hedger_snapshot,         \* the rows of table hedger_snapshot
    op,                      \* the latest write to one of these three tables
    binance_income,          \* the rows of table binance_income
    stats_bot_message,       \* the rows of table stats_bot_message
    hedger_binance_snapshot, \* the stored rows of HedgerBinanceSnapshot
    session_new,             \* objects added to the session and not yet flushed
    rc,                      \* the latest call of prepare_hedger_binance_snapshot
    remote,                  \* per tenant, the records its indexer holds (their numbers)
    tables,                  \* per entity type, the rows of its table
    call,                    \* the call of the entity synchronizer that is followed
    pass                     \* per tenant, the next entity type of its sync pass

\* The state of the job: what fetch_snapshot, sync_data and do_fetch_snapshot hold.
job == <<head, indexed, cfg, pc, get_snapshot, config, sync_block, idx, synced,
         e, restarts, lag, usedLag, raisedAt, returned, step, ran, raised>>

\* The tables written through BaseModel.upsert by the synchronizer and the
\* on-chain reconcilers.
store == <<entities, affiliate_snapshot, hedger_snapshot, op>>

\* The tables and the session prepare_hedger_binance_snapshot works on.
exchange == <<binance_income, stats_bot_message, hedger_binance_snapshot,
              session_new, rc>>

\* The indexers' records, the seven entity tables and the synchronizer's calls.
synchronizer == <<remote, tables, call, pass>>

\* The database apart from the RuntimeConfiguration row.
db == <<store, exchange, synchronizer>>

vars == <<job, db>>

env == <<head, indexed>>
syncLocals == <<sync_block, idx, synced, e, restarts, lag, usedLag, raisedAt, returned>>
snapLocals == <<step, ran>>

\* ------------------------------------------------------------- sync_data

\* Faulty variant: Account is synced before User and Symbol
EntityOrder_account_first == <<"Account", "User", "Symbol", "BalanceChange", "Quote",
                               "TradeHistory", "DailyHistory">>

\* The entity types a row of each type refers to (the ForeignKey columns of
\* app/models.py: Account.user_id, BalanceChange.account_id, Quote.account_id,
\* Quote.symbol_id, TradeHistory.account_id, TradeHistory.quote_id).
references(entity) ==
    CASE entity = "Account" -> {"User"}
      [] entity = "BalanceChange" -> {"Account"}
      [] entity = "Quote" -> {"Account", "Symbol"}
      [] entity = "TradeHistory" -> {"Account", "Quote"}
      [] OTHER -> {}

\* The order of the seven SubgraphClient(...).sync calls, lines 48-54.
EntityOrder == <<"User", "Symbol", "Account", "BalanceChange", "Quote",
                 "TradeHistory", "DailyHistory">>

NoError == [kind |-> "none", block |-> 0]
\* A remote I/O failure of the indexer or of the chain node.
RemoteIOError == [kind |-> "io", block |-> 0]
\* "... has only indexed up to block number N ..."
IndexedUpToError(n) == [kind |-> "lag", block |-> n]

\* What the indexer answers to a query bounded to block `number`.
IndexerAnswer(number, indexedUpTo) ==
    IF number > indexedUpTo THEN IndexedUpToError(indexedUpTo) ELSE NoError

\* sync_block.backward(config.snapshotBlockLag), line 46
backward(number, blocks) == number - blocks

\* Faulty variant: every exception is taken for the indexer-lag error
is_indexed_up_to_error_any(ex) == TRUE

\* line 56: "only indexed up to block number" in str(e)
is_indexed_up_to_error(ex) == ex.kind = "lag"

\* line 57: int(re.search(r"indexed up to block number (\d+)", str(e)).group(1))
last_synced_block(ex) == ex.block

\* Faulty variant: the new lag is one block short
recovered_lag_one_short(latest, last) == latest - last - 1

\* Faulty variant: the lag is computed from the head read at line 45, not read again
recovered_lag_stale_head(latest, last) == (sync_block + usedLag) - last

\* line 59: Block.latest(context.w3).number - last_synced_block
recovered_lag(latest, last) == latest - last

\* Faulty variant: the step is subtracted without the floor
tightened_lag_no_floor(l) == l - SNAPSHOT_BLOCK_LAG_STEP

\* line 69: max(config.snapshotBlockLag - SNAPSHOT_BLOCK_LAG_STEP, SNAPSHOT_BLOCK_LAG)
tightened_lag(l) == Max(l - SNAPSHOT_BLOCK_LAG_STEP, SNAPSHOT_BLOCK_LAG)

\* ----------------------------------------------------- do_fetch_snapshot

\* Faulty variant: a block equal to the last snapshot block is let through
is_stale_strict(row, number) ==
    row.lastSnapshotBlock # 0 /\ row.lastSnapshotBlock > number

\* lines 79 and 83: config.lastSnapshotBlock and config.lastSnapshotBlock >= snapshot_block.number
\* (an unset lastSnapshotBlock, 0 here, is falsy)
is_stale(row, number) ==
    row.lastSnapshotBlock # 0 /\ row.lastSnapshotBlock >= number

Call(kind, name, hedger) == [kind |-> kind, name |-> name, hedger |-> hedger]

\* lines 86-93: prepare_affiliate_snapshot for every affiliate and every hedger
affiliate_calls ==
    [k \in 1..(Len(Affiliates) * Len(Hedgers)) |->
        Call("affiliate", Affiliates[((k - 1) \div Len(Hedgers)) + 1],
             Hedgers[((k - 1) % Len(Hedgers)) + 1])]

\* lines 96-97: prepare_liquidator_snapshot for every liquidator
liquidator_calls ==
    [k \in 1..Len(Liquidators) |-> Call("liquidator", Liquidators[k], "-")]

\* Faulty variant: line 102's test dropped; the refresh and the exchange reconciler
\* run for every hedger, with or without keys
hedger_calls_of_every_hedger(h) ==
    <<Call("hedger", h, h), Call("income", h, h), Call("hedger_binance", h, h)>>

\* Faulty variant: lines 103 and 104 swapped; the exchange reconciler runs before
\* the income histories are refreshed
hedger_calls_of_reconcile_first(h) ==
    <<Call("hedger", h, h)>> \o
    (IF ~CHAIN_ONLY /\ has_binance_keys(h)
        THEN <<Call("hedger_binance", h, h), Call("income", h, h)>>
        ELSE <<>>)

\* lines 100-104: the calls made for one hedger
hedger_calls_of(h) ==
    <<Call("hedger", h, h)>> \o
    (IF ~CHAIN_ONLY /\ has_binance_keys(h)
        THEN <<Call("income", h, h), Call("hedger_binance", h, h)>>
        ELSE <<>>)

RECURSIVE hedger_calls(_)
\* lines 99-104: the loop over context.hedgers, from the i-th hedger on
hedger_calls(i) ==
    IF i > Len(Hedgers) THEN <<>> ELSE hedger_calls_of(Hedgers[i]) \o hedger_calls(i + 1)

\* lines 86-104: the calls of one snapshot pass, in the order they are made
snapshot_calls == affiliate_calls \o liquidator_calls \o hedger_calls(1)

\* ---------------------------------------------------------------- storage

Tenants == {"t1", "t2"}

\* The times of the blocks snapshots are taken at.
BlockTimes == (MaxTime - 1)..MaxTime

UserIds == {"u1", "u2"}

\* models.py 43, 265 and 298: __pk_name__ of User, AffiliateSnapshot, HedgerSnapshot
User_pk == "id"
AffiliateSnapshot_pk == "timestamp"
HedgerSnapshot_pk == "timestamp"

\* Faulty variant: a plain INSERT that takes no notice of a stored row with the
\* same key
upsert_insert_only(table, pk_name, row) == table \cup {row}

\* Faulty variant: lines 23-24 drop the key whatever its value, so that every
\* upsert inserts a row under a key the database generates
upsert_generated_key(table, pk_name, row) ==
    table \cup {[row EXCEPT ![pk_name] =
                    IF pk_name = "id" THEN "g" \o ToString(Cardinality(table))
                    ELSE Cardinality(table)]}

\* BaseModel.upsert, lines 21-34: INSERT of every column, ON CONFLICT on the
\* column __pk_name__ DO UPDATE SET every column. The rows written here have
\* a non-empty key, so lines 23-24 leave the inserted values as they are.
upsert(table, pk_name, row) ==
    {r \in table : r[pk_name] # row[pk_name]} \cup {row}

\* data_loaders.py 170: User(**convert_timestamps(data), tenant=context.tenant)
User(data, tenant) ==
    [id |-> data.id, timestamp |-> data.timestamp,
     transaction |-> data.transaction, tenant |-> tenant]

\* The row prepare_affiliate_snapshot writes for one affiliate and one hedger
\* (its key columns; the aggregates are left out).
AffiliateSnapshot(tenant, affiliate, hedger, time) ==
    [timestamp |-> time, name |-> affiliate, hedger_name |-> hedger, tenant |-> tenant]

\* The row prepare_hedger_snapshot writes for one hedger (its key columns).
HedgerSnapshot(tenant, hedger, time) ==
    [timestamp |-> time, name |-> hedger, tenant |-> tenant]

\* prepare_affiliate_snapshot: the row is upserted on the model's key.
prepare_affiliate_snapshot(table, tenant, affiliate, hedger, time) ==
    upsert(table, AffiliateSnapshot_pk, AffiliateSnapshot(tenant, affiliate, hedger, time))

\* prepare_hedger_snapshot: the row is upserted on the model's key.
prepare_hedger_snapshot(table, tenant, hedger, time) ==
    upsert(table, HedgerSnapshot_pk, HedgerSnapshot(tenant, hedger, time))

RECURSIVE affiliate_loop(_, _, _, _)
\* lines 86-93: the loop over the affiliates and the hedgers, from the k-th call on
affiliate_loop(table, tenant, time, k) ==
    IF k > Len(affiliate_calls) THEN table
    ELSE affiliate_loop(
            prepare_affiliate_snapshot(table, tenant, affiliate_calls[k].name,
                                       affiliate_calls[k].hedger, time),
            tenant, time, k + 1)

\* No call of prepare_hedger_binance_snapshot yet.
NoCall ==
    [tenant |-> "-", name |-> "-", time |-> 0, past |-> FALSE, calls |-> <<>>,
     outcome |-> "none", source |-> 0, positions |-> <<>>]

\* No storage operation yet.
NoOp == [kind |-> "none", tenant |-> "-", name |-> "-", timestamp |-> 0, existed |-> FALSE]

\* ------------------------------------------------- the exchange reconciler

\* A Decimal amount of units * 10^18 + wei.
Dec(units, wei) == [units |-> units, wei |-> wei]

DecAdd(a, b) == Dec(a.units + b.units, a.wei + b.wei)

DecSub(a, b) == Dec(a.units - b.units, a.wei - b.wei)

DecNeg(a) == Dec(0 - a.units, 0 - a.wei)

abs(x) == IF x < 0 THEN 0 - x ELSE x

\* x * 10 ** 18 for an int or a Decimal x: exact.
e18(x) == Dec(x, 0)

\* x * 10 ** 18 for a float x of whole value in 0..4722, as a double holds it:
\* x * 10^18 = (x * 5^18) * 2^18 and a double has 53 bits; x * 5^18 needs 53
\* bits or fewer when x <= 2361, 54 bits up to x = 4722, where an even x is
\* held exactly and an odd x is a tie, rounded to the even neighbour
\* (5^18 = 1 mod 4, so down when x = 1 mod 4, up when x = 3 mod 4).
float_e18(x) ==
    Dec(x, IF x <= 2361 \/ x % 2 = 0 THEN 0
           ELSE IF x % 4 = 1 THEN 0 - 2^18 ELSE 2^18)

\* models.py 329-339: a row of binance_income
BinanceIncome(id, type, amount, time, tenant, hedger) ==
    [id |-> id, type |-> type, amount |-> amount, timestamp |-> time,
     tenant |-> tenant, hedger |-> hedger]

\* The income rows the mirror may hold.
IncomeUniverse ==
    { BinanceIncome(1, "TRANSFER", 0 - 150, MaxTime - 3, "t1", "h1"),
      BinanceIncome(2, "INTERNAL_TRANSFER", 30, MaxTime - 2, "t1", "h1"),
      BinanceIncome(3, "TRANSFER", 2363, MaxTime, "t1", "h1"),
      BinanceIncome(4, "TRANSFER", 11, MaxTime - 3, "t2", "h1"),
      BinanceIncome(5, "TRANSFER", 13, MaxTime - 3, "t1", "h2"),
      BinanceIncome(6, "FUNDING_FEE", 0 - 4, MaxTime - 3, "t1", "h2") }

ContentKeys == {"Total Maint. Margin", "Total Margin Balance", "Max Withdraw Amount"}

\* models.py 358-365: a row of stats_bot_message; its content holds the account
\* figures of the message (here told apart by the message's id).
StatsBotMessage(id, time, tenant) ==
    [message_id |-> id, timestamp |-> time, tenant |-> tenant,
     content |-> [k \in ContentKeys |->
                    Dec(IF k = "Total Margin Balance" THEN 10 * id
                        ELSE IF k = "Total Maint. Margin" THEN id ELSE 2 * id, 0)]]

\* The messages the stats bot may have stored.
StatsUniverse ==
    { StatsBotMessage(1, MaxTime - 4, "t1"),
      StatsBotMessage(2, MaxTime - 2, "t1"),
      StatsBotMessage(3, MaxTime, "t1"),
      StatsBotMessage(4, MaxTime - 2, "t2") }

\* What futures_account(version=2) may answer (line 71).
Accounts ==
    { [totalMaintMargin |-> 0, totalMarginBalance |-> 0, maxWithdrawAmount |-> 0],
      [totalMaintMargin |-> 5, totalMarginBalance |-> 10, maxWithdrawAmount |-> 2] }

\* What futures_position_information() may answer (line 135), each position
\* with the rate real_time_funding_rate answers for its symbol (line 144).
PositionLists ==
    { <<>>,
      <<[symbol |-> "BTCUSDT", notional |-> 0, fundingRate |-> 1],
        [symbol |-> "ETHUSDT", notional |-> 2, fundingRate |-> 3]>> }

\* Block: its number, its time and whether it is a block of the past.
Block(time, past) == [number |-> time, time |-> time, past |-> past]

is_for_past(block) == block.past

\* hedger_context.binance_deposit_diff
binance_deposit_diff(hedger) == IF hedger = "h1" THEN 5 ELSE 0

RECURSIVE sum_amount(_)
\* func.coalesce(func.sum(BinanceIncome.amount), 0)
sum_amount(rows) ==
    IF rows = {} THEN 0
    ELSE LET r == CHOOSE x \in rows : TRUE
         IN  r.amount + sum_amount(rows \ {r})

\* lines 40-49
transfer_sum(tenant, hedger, block) ==
    sum_amount({r \in binance_income :
                    /\ r.timestamp <= block.time
                    /\ r.type = "TRANSFER"
                    /\ r.tenant = tenant
                    /\ r.hedger = hedger})

\* lines 51-60
internal_transfer_sum(tenant, hedger, block) ==
    sum_amount({r \in binance_income :
                    /\ r.timestamp <= block.time
                    /\ r.type = "INTERNAL_TRANSFER"
                    /\ r.tenant = tenant
                    /\ r.hedger = hedger})

\* lines 62-68: the sums are floats, the adjustment is added to a Decimal
binance_deposit(total_transfers, diff) ==
    LET is_negative == total_transfers < 0
    IN  DecAdd(IF is_negative THEN DecNeg(float_e18(abs(total_transfers)))
               ELSE float_e18(total_transfers),
               Dec(0, diff))

\* lines 72-79: the account figures of a live block
live_fields(account) ==
    [binance_maintenance_margin |-> float_e18(account.totalMaintMargin),
     binance_total_balance |-> float_e18(account.totalMarginBalance),
     binance_max_withdraw_amount |-> e18(account.maxWithdrawAmount)]

\* lines 83-91: the messages the query of a past block may answer with
stat_messages(tenant, block) ==
    {m \in stats_bot_message :
        /\ m.timestamp <= block.time
        /\ m.timestamp >= block.time - StatsWindow
        /\ m.tenant = tenant}

\* lines 95-101: the account figures of a past block
past_fields(stat_message) ==
    [binance_maintenance_margin |-> stat_message.content["Total Maint. Margin"],
     binance_total_balance |-> stat_message.content["Total Margin Balance"],
     binance_max_withdraw_amount |-> stat_message.content["Max Withdraw Amount"]]

\* lines 112-121
binance_paid_funding_fee(tenant, block) ==
    sum_amount({r \in binance_income :
                    /\ r.timestamp <= block.time
                    /\ r.amount < 0
                    /\ r.type = "FUNDING_FEE"
                    /\ r.tenant = tenant})

\* lines 123-132
binance_received_funding_fee(tenant, block) ==
    sum_amount({r \in binance_income :
                    /\ r.timestamp <= block.time
                    /\ r.amount > 0
                    /\ r.type = "FUNDING_FEE"
                    /\ r.tenant = tenant})

\* line 136
open_positions(positions) == SelectSeq(positions, LAMBDA p : p.notional # 0)

RECURSIVE binance_next_funding_fee_unsigned(_)
\* Faulty variant: line 145 without its factor -1
binance_next_funding_fee_unsigned(open) ==
    IF open = <<>> THEN Dec(0, 0)
    ELSE DecAdd(e18(Head(open).notional * Head(open).fundingRate),
                binance_next_funding_fee_unsigned(Tail(open)))

RECURSIVE binance_next_funding_fee(_)
\* lines 137-146, over the open positions
binance_next_funding_fee(open) ==
    IF open = <<>> THEN Dec(0, 0)
    ELSE DecAdd(e18((0 - 1) * Head(open).notional * Head(open).fundingRate),
                binance_next_funding_fee(Tail(open)))

\* lines 62-68, 105, 112-132 and 150-153: the snapshot of a hedger at a block,
\* given its account figures (health ratio, cross uPnL, available balance,
\* initial margin, open interest and trade volume are left out).
snapshot_of(tenant, hedger, block, fields) ==
    LET total_transfers == transfer_sum(tenant, hedger, block)
                             + internal_transfer_sum(tenant, hedger, block)
        deposit == binance_deposit(total_transfers, binance_deposit_diff(hedger))
    IN  [timestamp |-> block.time,
         name |-> hedger,
         tenant |-> tenant,
         block_number |-> block.number,
         binance_deposit |-> deposit,
         binance_maintenance_margin |-> fields.binance_maintenance_margin,
         binance_total_balance |-> fields.binance_total_balance,
         binance_max_withdraw_amount |-> fields.binance_max_withdraw_amount,
         binance_profit |-> DecSub(fields.binance_total_balance, deposit),
         binance_paid_funding_fee |-> binance_paid_funding_fee(tenant, block),
         binance_received_funding_fee |-> binance_received_funding_fee(tenant, block)]

\* The key of a HedgerBinanceSnapshot row.
HedgerBinanceSnapshot_pk(row) == <<row.tenant, row.name, row.timestamp>>

\* BaseModel.save, models.py 36-37: session.add
save(session, row) == session \cup {row}

\* The tenant of the job whose calls are followed (context.tenant); the other
\* tenant's rows are those of another job on the same database.
ContextTenants == {"t1"}

\* The hedgers the exchange reconciler is called for (snapshot_job.py 102).
ExchangeHedgers ==
    {Hedgers[i] : i \in {k \in 1..Len(Hedgers) : ~CHAIN_ONLY /\ has_binance_keys(Hedgers[k])}}

\* ------------------------------------------------ the entity synchronizer

\* The records an indexer may hold, by number.
RecordNumbers == 1..MaxRecords

\* The remote `timestamp` of record n (seconds): records 2 and 3, 4 and 5, ...
\* were created in the same second.
timestamp_of(n) == (n + 2) \div 2

\* The remote `updateTimestamp` of record n: at or after its creation.
updateTimestamp_of(n) == timestamp_of(n) + (n % 2)

\* The number of the parent record that child record n refers to: a record
\* created no later than the child.
parent_of(n) == IF n = 1 THEN 1 ELSE n - 1

\* The number a remote numeric string stands for (the indexer sends ids and
\* BigInt values as strings of digits); no remote value of the model exceeds
\* the latest second plus the highest record number.
int(value) ==
    CHOOSE k \in 0..(timestamp_of(MaxRecords) + 1 + MaxRecords) : ToString(k) = value

\* models.py: __pk_name__ of the seven synced models
pk_name(entity) == IF entity = "DailyHistory" THEN "timestamp" ELSE "id"

\* models.py: pagination_field of the seven __subgraph_synchronizer_config__
pagination_field(entity) == "timestamp"

\* models.py: catch_up_field of the seven __subgraph_synchronizer_config__
catch_up_field(entity) ==
    IF entity \in {"User", "BalanceChange"} THEN "timestamp" ELSE "updateTimestamp"

\* models.py 133, 154 and 200: tenant_needed_fields (none elsewhere)
tenant_needed_fields(entity) ==
    CASE entity = "Symbol" -> {"id"}
      [] entity = "Quote" -> {"id", "symbolId"}
      [] entity = "TradeHistory" -> {"quote"}
      [] OTHER -> {}

\* models.py 74-76, 103-105, 155-158 and 201-204: name_maps, from the local
\* column to the remote field
name_maps(entity) ==
    CASE entity = "Account" -> [user_id |-> "user"]
      [] entity = "BalanceChange" -> [account_id |-> "account"]
      [] entity = "Quote" -> [account_id |-> "account", symbol_id |-> "symbolId"]
      [] entity = "TradeHistory" -> [account_id |-> "account", quote_id |-> "quote"]
      [] OTHER -> <<>>

\* models.py 80, 108, 161, 163, 207 and 209: the table a ForeignKey column refers to
ForeignKey(column) ==
    CASE column = "user_id" -> "User"
      [] column = "account_id" -> "Account"
      [] column = "symbol_id" -> "Symbol"
      [] column = "quote_id" -> "Quote"

\* The remote fields of a record of an entity type that the model follows: its
\* id, its pagination and catch-up fields and its references (the value
\* columns are left out).
remote_fields(entity) ==
    {"id", pagination_field(entity), catch_up_field(entity)}
        \cup {name_maps(entity)[c] : c \in DOMAIN name_maps(entity)}

\* Record n of an entity type as the indexer returns it: a flat mapping of
\* strings.
RemoteRecord(entity, n) ==
    [f \in remote_fields(entity) |->
        CASE f = "id" -> ToString(n)
          [] f = "timestamp" -> ToString(timestamp_of(n))
          [] f = "updateTimestamp" -> ToString(updateTimestamp_of(n))
          [] OTHER -> ToString(parent_of(n))]

\* data_loaders.py 17 and 22: f"{context.tenant}_{data['id']}"
tag_tenant(value, tenant) == tenant \o "_" \o value

\* utils.time_utils.convert_timestamps: the timestamp fields become instants
\* (held here as their second)
convert_timestamps(data) ==
    [f \in DOMAIN data |->
        IF f \in {"timestamp", "updateTimestamp"} THEN int(data[f]) ELSE data[f]]

\* The row the synchronizer builds from a remote record: the fields of
\* tenant_needed_fields are tagged with the tenant, the timestamps converted,
\* the fields renamed by name_maps, and the tenant column set.
create_function(entity, data, tenant) ==
    LET tagged == [f \in DOMAIN data |->
                      IF f \in tenant_needed_fields(entity)
                      THEN tag_tenant(data[f], tenant) ELSE data[f]]
        converted == convert_timestamps(tagged)
        maps == name_maps(entity)
        columns == ((DOMAIN data) \ {maps[c] : c \in DOMAIN maps})
                      \cup (DOMAIN maps) \cup {"tenant"}
    IN  [c \in columns |->
            IF c = "tenant" THEN tenant
            ELSE IF c \in DOMAIN maps THEN converted[maps[c]]
            ELSE converted[c]]

\* The records of a tenant's indexer that a page request matches: pagination
\* field after the cursor, catch-up field at or after the last snapshot time.
matching(tenant, entity, cursor, since) ==
    {n \in remote[tenant] :
        /\ int(RemoteRecord(entity, n)[pagination_field(entity)]) > int(cursor)
        /\ int(RemoteRecord(entity, n)[catch_up_field(entity)]) >= since}

RECURSIVE first(_, _, _)
\* The first k of a set of records in the order of the pagination field
\* (records that share its value come in the order of their numbers).
first(entity, numbers, k) ==
    IF k = 0 \/ numbers = {} THEN <<>>
    ELSE LET n == CHOOSE m \in numbers :
                     \A o \in numbers :
                        \/ timestamp_of(m) < timestamp_of(o)
                        \/ timestamp_of(m) = timestamp_of(o) /\ m <= o
         IN  <<RemoteRecord(entity, n)>> \o first(entity, numbers \ {n}, k - 1)

\* One page request.
page(tenant, entity, cursor, since) ==
    first(entity, matching(tenant, entity, cursor, since), PageSize)

RECURSIVE upsert_all(_, _, _, _)
\* The records of a page are built and upserted one after the other.
upsert_all(table, entity, tenant, records) ==
    IF records = <<>> THEN table
    ELSE upsert_all(upsert(table, pk_name(entity),
                           create_function(entity, Head(records), tenant)),
                    entity, tenant, Tail(records))

\* The cursor after a page: the pagination value of its last record.
last_seen(entity, records, cursor) ==
    IF records = <<>> THEN cursor
    ELSE records[Len(records)][pagination_field(entity)]

RECURSIVE sync(_, _, _, _, _)
\* SubgraphClient(context, Model).sync: pages are requested, upserted and the
\* cursor advanced until a page is shorter than the page size.
sync(table, tenant, entity, cursor, since) ==
    LET records == page(tenant, entity, cursor, since)
        rows == upsert_all(table, entity, tenant, records)
        seen == last_seen(entity, records, cursor)
    IN  IF Len(records) < PageSize
        THEN [rows |-> rows, cursor |-> seen, requests |-> 1, upserts |-> Len(records)]
        ELSE LET rest == sync(rows, tenant, entity, seen, since)
             IN  [rows |-> rest.rows, cursor |-> rest.cursor,
                  requests |-> rest.requests + 1,
                  upserts |-> rest.upserts + Len(records)]

\* The seven synced entity types.
Entities == {EntityOrder[i] : i \in 1..Len(EntityOrder)}

\* The cursors a synchronizer call may be started from, and the last snapshot
\* times (config.lastSnapshotTimestamp) its catch-up filter may use.
StartCursors == {"0", "1"}
Sinces == {0, 2}

\* No synchronizer call yet.
NoSync ==
    [state |-> "none", tenant |-> "-", entity |-> "-", since |-> 0, origin |-> "0",
     start |-> "0", cursor |-> "0", requests |-> 0, upserts |-> 0, applied |-> {},
     calls |-> 0, previous |-> "none", before |-> {}]

\* The row stored for record 1 by an earlier pass, before the record's latest
\* update.
StaleRow(entity, tenant) ==
    create_function(entity, [RemoteRecord(entity, 1) EXCEPT !["updateTimestamp"] = "0"],
                    tenant)

\* ---------------------------------------------------------------- actions

\* fetch_snapshot, lines 36-38: a run starts and enters sync_data.
fetch_snapshot ==
    /\ pc \in {"idle", "done", "failed"}
    /\ get_snapshot' = FALSE
    /\ pc' = "sync_data"
    /\ config' = cfg
    /\ sync_block' = 0
    /\ idx' = 1
    /\ synced' = <<>>
    /\ e' = NoError
    /\ restarts' = 0
    /\ lag' = 0
    /\ usedLag' = 0
    /\ raisedAt' = 0
    /\ returned' = 0
    /\ step' = 1
    /\ ran' = <<>>
    /\ raised' = "none"
    /\ UNCHANGED <<db, head, indexed, cfg>>

\* Faulty variant: a restarted pass resumes at the call that raised
sync_data_begin_resume ==
    /\ pc = "sync_data"
    /\ config' = cfg
    /\ sync_block' = backward(head, cfg.snapshotBlockLag)
    /\ usedLag' = cfg.snapshotBlockLag
    /\ idx' = IF restarts > 0 THEN raisedAt ELSE 1
    /\ synced' = <<>>
    /\ pc' = "sync"
    /\ UNCHANGED <<db, env, cfg, get_snapshot, e, restarts, lag, raisedAt, returned,
                   snapLocals, raised>>

\* sync_data, lines 44-46: load the row, read the head, step back by the lag.
sync_data_begin ==
    /\ pc = "sync_data"
    /\ config' = cfg
    /\ sync_block' = backward(head, cfg.snapshotBlockLag)
    /\ usedLag' = cfg.snapshotBlockLag
    /\ idx' = 1
    /\ synced' = <<>>
    /\ pc' = "sync"
    /\ UNCHANGED <<db, env, cfg, get_snapshot, e, restarts, lag, raisedAt, returned,
                   snapLocals, raised>>

\* line 45: Block.latest fails; nothing in sync_data catches it.
sync_data_begin_io ==
    /\ pc = "sync_data"
    /\ raised' = "RemoteIOError"
    /\ pc' = "failed"
    /\ UNCHANGED <<db, env, cfg, get_snapshot, config, syncLocals, snapLocals>>

\* One of the calls of lines 48-54 returns.
sync_entity_ok ==
    /\ pc = "sync"
    /\ idx <= Len(EntityOrder)
    /\ IndexerAnswer(sync_block, indexed) = NoError
    /\ synced' = Append(synced, [entity |-> EntityOrder[idx], block |-> sync_block])
    /\ idx' = idx + 1
    /\ UNCHANGED <<db, env, cfg, pc, get_snapshot, config, sync_block, e, restarts,
                   lag, usedLag, raisedAt, returned, snapLocals, raised>>

\* One of the calls of lines 48-54 raises: the indexer is behind the block asked for.
sync_entity_lag ==
    /\ pc = "sync"
    /\ idx <= Len(EntityOrder)
    /\ IndexerAnswer(sync_block, indexed) # NoError
    /\ e' = IndexerAnswer(sync_block, indexed)
    /\ raisedAt' = idx
    /\ pc' = "except"
    /\ UNCHANGED <<db, env, cfg, get_snapshot, config, sync_block, idx, synced,
                   restarts, lag, usedLag, returned, snapLocals, raised>>

\* One of the calls of lines 48-54 raises another error.
sync_entity_io ==
    /\ pc = "sync"
    /\ idx <= Len(EntityOrder)
    /\ e' = RemoteIOError
    /\ raisedAt' = idx
    /\ pc' = "except"
    /\ UNCHANGED <<db, env, cfg, get_snapshot, config, sync_block, idx, synced,
                   restarts, lag, usedLag, returned, snapLocals, raised>>

\* Faulty variant: the handler also records the block the indexer reported as
\* the sync cursor
sync_data_recover_moves_cursor ==
    /\ pc = "except"
    /\ is_indexed_up_to_error(e)
    /\ restarts < MaxRestarts
    /\ lag' = recovered_lag(head, last_synced_block(e))
    /\ config' = [cfg EXCEPT !.snapshotBlockLag = lag',
                             !.lastSyncBlock = last_synced_block(e)]
    /\ cfg' = config'
    /\ restarts' = restarts + 1
    /\ pc' = "sync_data"
    /\ UNCHANGED <<db, env, get_snapshot, sync_block, idx, synced, e, usedLag,
                   raisedAt, returned, snapLocals, raised>>

\* lines 55-64: the indexer-lag error is recovered: the head is read again, the
\* new lag is persisted and committed, and sync_data calls itself.
sync_data_recover ==
    /\ pc = "except"
    /\ is_indexed_up_to_error(e)
    /\ restarts < MaxRestarts
    /\ lag' = recovered_lag(head, last_synced_block(e))
    /\ config' = [cfg EXCEPT !.snapshotBlockLag = lag']
    /\ cfg' = config'
    /\ restarts' = restarts + 1
    /\ pc' = "sync_data"
    /\ UNCHANGED <<db, env, get_snapshot, sync_block, idx, synced, e, usedLag,
                   raisedAt, returned, snapLocals, raised>>

\* line 59: Block.latest fails inside the handler; the error leaves sync_data.
sync_data_recover_io ==
    /\ pc = "except"
    /\ is_indexed_up_to_error(e)
    /\ raised' = "RemoteIOError"
    /\ pc' = "failed"
    /\ UNCHANGED <<db, env, cfg, get_snapshot, config, syncLocals, snapLocals>>

\* lines 65-66: any other error is raised again.
sync_data_raise ==
    /\ pc = "except"
    /\ ~is_indexed_up_to_error(e)
    /\ raised' = "RemoteIOError"
    /\ pc' = "failed"
    /\ UNCHANGED <<db, env, cfg, get_snapshot, config, syncLocals, snapLocals>>

\* Faulty variant: line 39's test of context.get_snapshot dropped; every
\* completed sync goes on to the snapshot pass
sync_data_completed_always_snapshot ==
    /\ pc = "sync"
    /\ idx > Len(EntityOrder)
    /\ config' = [config EXCEPT !.lastSyncBlock = sync_block,
                                !.snapshotBlockLag = tightened_lag(config.snapshotBlockLag)]
    /\ cfg' = config'
    /\ returned' = sync_block
    /\ \E g \in BOOLEAN :
          /\ get_snapshot' = g
          /\ pc' = "do_fetch_snapshot"
    /\ UNCHANGED <<db, env, sync_block, idx, synced, e, restarts, lag,
                   usedLag, raisedAt, snapLocals, raised>>

\* lines 67-72: every call returned; the cursor and the tightened lag are
\* persisted and committed, and the block is returned to fetch_snapshot
\* (lines 39-40), which enters do_fetch_snapshot when the run asked for it
\* (context.get_snapshot, read at line 39).
sync_data_completed ==
    /\ pc = "sync"
    /\ idx > Len(EntityOrder)
    /\ config' = [config EXCEPT !.lastSyncBlock = sync_block,
                                !.snapshotBlockLag = tightened_lag(config.snapshotBlockLag)]
    /\ cfg' = config'
    /\ returned' = sync_block
    /\ \E g \in BOOLEAN :
          /\ get_snapshot' = g
          /\ pc' = IF g THEN "do_fetch_snapshot" ELSE "done"
    /\ UNCHANGED <<db, env, sync_block, idx, synced, e, restarts, lag,
                   usedLag, raisedAt, snapLocals, raised>>

\* do_fetch_snapshot, lines 76-84: the row is loaded; a block that is not newer
\* than the last snapshot block ends the pass (raising a str raises TypeError).
do_fetch_snapshot_stale ==
    /\ pc = "do_fetch_snapshot"
    /\ is_stale(cfg, returned)
    /\ config' = cfg
    /\ raised' = "TypeError"
    /\ pc' = "failed"
    /\ UNCHANGED <<db, env, cfg, get_snapshot, syncLocals, snapLocals>>

\* do_fetch_snapshot, lines 76-84, when the block is newer: on to the reconcilers.
do_fetch_snapshot_begin ==
    /\ pc = "do_fetch_snapshot"
    /\ ~is_stale(cfg, returned)
    /\ config' = cfg
    /\ step' = 1
    /\ ran' = <<>>
    /\ pc' = "snapshot"
    /\ UNCHANGED <<db, env, cfg, get_snapshot, syncLocals, raised>>

\* lines 86-104: the next reconciler call (or income-history refresh) returns.
reconcile_ok ==
    /\ pc = "snapshot"
    /\ step <= Len(snapshot_calls)
    /\ ran' = Append(ran, snapshot_calls[step])
    /\ step' = step + 1
    /\ UNCHANGED <<db, env, cfg, pc, get_snapshot, config, syncLocals, raised>>

\* lines 86-104: the next reconciler call (or income-history refresh) raises.
reconcile_raise ==
    /\ pc = "snapshot"
    /\ step <= Len(snapshot_calls)
    /\ raised' = "ReconcilerError"
    /\ pc' = "failed"
    /\ UNCHANGED <<db, env, cfg, get_snapshot, config, syncLocals, snapLocals>>

\* Faulty variant: lines 106-108 indented into the loop over the hedgers: the cursor
\* is persisted as soon as the first hedger's calls have returned
do_fetch_snapshot_commit_in_loop ==
    /\ pc = "snapshot"
    /\ step > Len(affiliate_calls) + Len(liquidator_calls) + Len(hedger_calls_of(Hedgers[1]))
    /\ cfg.lastSnapshotBlock # returned
    /\ config' = [config EXCEPT !.lastSnapshotBlock = returned]
    /\ cfg' = config'
    /\ pc' = IF step > Len(snapshot_calls) THEN "done" ELSE "snapshot"
    /\ UNCHANGED <<db, env, get_snapshot, syncLocals, snapLocals, raised>>

\* lines 106-108: every call returned; the snapshot cursor is persisted.
do_fetch_snapshot_commit ==
    /\ pc = "snapshot"
    /\ step > Len(snapshot_calls)
    /\ config' = [config EXCEPT !.lastSnapshotBlock = returned]
    /\ cfg' = config'
    /\ pc' = "done"
    /\ UNCHANGED <<db, env, get_snapshot, syncLocals, snapLocals, raised>>

\* ----------------------------------------------------------- environment
\* The chain produces a block.
ChainAdvance ==
    /\ head < MaxHead
    /\ head' = head + 1
    /\ UNCHANGED <<db, indexed, cfg, pc, get_snapshot, config, syncLocals, snapLocals, raised>>

\* The indexer indexes one more block.
IndexerAdvance ==
    /\ indexed < head
    /\ indexed' = indexed + 1
    /\ UNCHANGED <<db, head, cfg, pc, get_snapshot, config, syncLocals, snapLocals, raised>>

\* The next query is served by an indexer node that is one block further behind.
IndexerFallBehind ==
    /\ indexed > InitHead - MaxBehind
    /\ indexed' = indexed - 1
    /\ UNCHANGED <<db, head, cfg, pc, get_snapshot, config, syncLocals, snapLocals, raised>>

\* ------------------------------------------------------- specifications
\* The persisted row of a tenant that has not run yet: both cursors unset (0);
\* the stored lag is whatever the row holds, not necessarily at or above the
\* floor SNAPSHOT_BLOCK_LAG that the running process is configured with.
\* The job before its first run, apart from the row it finds.
Idle ==
    /\ pc = "idle"
    /\ get_snapshot = FALSE
    /\ config = cfg
    /\ sync_block = 0
    /\ idx = 1
    /\ synced = <<>>
    /\ e = NoError
    /\ restarts = 0
    /\ lag = 0
    /\ usedLag = 0
    /\ raisedAt = 0
    /\ returned = 0
    /\ step = 1
    /\ ran = <<>>
    /\ raised = "none"

\* Empty entity and snapshot tables.
EmptyStore ==
    /\ entities = {}
    /\ affiliate_snapshot = {}
    /\ hedger_snapshot = {}
    /\ op = NoOp

\* Empty exchange tables and an empty session.
EmptyExchange ==
    /\ binance_income = {}
    /\ stats_bot_message = {}
    /\ hedger_binance_snapshot = {}
    /\ session_new = {}
    /\ rc = NoCall

\* No indexer records, empty entity tables, no synchronizer call.
EmptySynchronizer ==
    /\ remote = [t \in Tenants |-> {}]
    /\ tables = [entity \in Entities |-> {}]
    /\ call = NoSync
    /\ pass = [t \in Tenants |-> 1]

Init ==
    /\ head = InitHead
    /\ indexed \in (InitHead - MaxBehind)..InitHead
    /\ cfg \in [lastSyncBlock : {0}, lastSnapshotBlock : {0},
                snapshotBlockLag : 0..MaxInitLag]
    /\ Idle
    /\ EmptyStore
    /\ EmptyExchange
    /\ EmptySynchronizer

Pipeline ==
    \/ fetch_snapshot
    \/ sync_data_begin
    \/ sync_data_begin_io
    \/ sync_entity_ok
    \/ sync_entity_lag
    \/ sync_entity_io
    \/ sync_data_recover
    \/ sync_data_recover_io
    \/ sync_data_raise
    \/ sync_data_completed
    \/ do_fetch_snapshot_stale
    \/ do_fetch_snapshot_begin
    \/ reconcile_ok
    \/ reconcile_raise
    \/ do_fetch_snapshot_commit

Next ==
    \/ Pipeline
    \/ ChainAdvance
    \/ IndexerAdvance
    \/ IndexerFallBehind

\* Any chain that only grows, any indexer.
Spec == Init /\ [][Next]_vars

NextMonotone ==
    \/ Pipeline
    \/ ChainAdvance
    \/ IndexerAdvance

\* A chain that only grows and an indexer whose last-indexed block only grows.
SpecMonotone == Init /\ [][NextMonotone]_vars

TypeOK ==
    /\ head \in InitHead..MaxHead
    /\ indexed \in (InitHead - MaxBehind)..head
    /\ sync_block >= 0
    /\ cfg.snapshotBlockLag >= 0

\* ------------------------------------------------------- writes to storage

\* One row of the indexer's users is written: models.py 21-34 on table user.
upsert_user ==
    \E tenant \in Tenants, id \in UserIds, time \in BlockTimes :
        LET row == User([id |-> id, timestamp |-> time, transaction |-> "0xa"], tenant)
        IN  /\ entities' = upsert(entities, User_pk, row)
            /\ op' = [kind |-> "user", tenant |-> tenant, name |-> id, timestamp |-> time,
                      existed |-> \E r \in entities : r.id = id]
            /\ UNCHANGED <<job, exchange, synchronizer, affiliate_snapshot, hedger_snapshot>>

\* snapshot_job.py 86-93: the affiliate snapshots of one pass of one tenant at
\* one block.
snapshot_affiliates ==
    \E tenant \in Tenants, time \in BlockTimes :
        /\ affiliate_snapshot' = affiliate_loop(affiliate_snapshot, tenant, time, 1)
        /\ op' = [kind |-> "affiliates", tenant |-> tenant, name |-> "-", timestamp |-> time,
                  existed |-> \E r \in affiliate_snapshot : r.timestamp = time]
        /\ UNCHANGED <<job, exchange, synchronizer, entities, hedger_snapshot>>

\* snapshot_job.py 100: the on-chain snapshot of one hedger of one tenant at one block.
snapshot_hedger ==
    \E tenant \in Tenants, i \in 1..Len(Hedgers), time \in BlockTimes :
        /\ hedger_snapshot' = prepare_hedger_snapshot(hedger_snapshot, tenant, Hedgers[i], time)
        /\ op' = [kind |-> "hedger", tenant |-> tenant, name |-> Hedgers[i], timestamp |-> time,
                  existed |-> \E r \in hedger_snapshot : r.timestamp = time]
        /\ UNCHANGED <<job, exchange, synchronizer, entities, affiliate_snapshot>>

\* The job at rest with a row at the floor.
JobAtRest ==
    /\ head = InitHead
    /\ indexed = InitHead
    /\ cfg = [lastSyncBlock |-> 0, lastSnapshotBlock |-> 0,
              snapshotBlockLag |-> SNAPSHOT_BLOCK_LAG]
    /\ Idle

InitStore ==
    /\ JobAtRest
    /\ EmptyStore
    /\ EmptyExchange
    /\ EmptySynchronizer

NextStore ==
    \/ upsert_user
    \/ snapshot_affiliates
    \/ snapshot_hedger

\* The writes to the entity and snapshot tables, in any order.
SpecStore == InitStore /\ [][NextStore]_vars

\* ------------------------------------------- prepare_hedger_binance_snapshot

\* What a call leaves in rc.
Called(tenant, hedger, block, calls, outcome, source, positions) ==
    [tenant |-> tenant, name |-> hedger, time |-> block.time, past |-> block.past,
     calls |-> calls, outcome |-> outcome, source |-> source, positions |-> positions]

\* Lines 29-159 for a block that is not of the past: the account is queried,
\* then the positions and the funding rate of every open position; the
\* snapshot is added to the session. The first query of a call flushes the
\* session, so a call starts with nothing pending.
prepare_hedger_binance_snapshot_live ==
    /\ session_new = {}
    /\ \E tenant \in ContextTenants, hedger \in ExchangeHedgers, time \in BlockTimes,
          account \in Accounts, positions \in PositionLists :
          LET block == Block(time, FALSE)
              open == open_positions(positions)
              snapshot == snapshot_of(tenant, hedger, block, live_fields(account))
                            @@ ("binance_next_funding_fee" :> binance_next_funding_fee(open))
          IN  /\ ~is_for_past(block)
              /\ account.totalMarginBalance # 0
              /\ session_new' = save(session_new, snapshot)
              /\ rc' = Called(tenant, hedger, block,
                              <<"futures_account", "futures_position_information">>
                                \o [k \in 1..Len(open) |-> "real_time_funding_rate"],
                              "added", 0, positions)
    /\ UNCHANGED <<job, store, synchronizer, binance_income, stats_bot_message, hedger_binance_snapshot>>

\* Lines 70-75 for an account with no margin balance: the division of lines
\* 74-75 raises; nothing is added.
prepare_hedger_binance_snapshot_live_zero ==
    /\ session_new = {}
    /\ \E tenant \in ContextTenants, hedger \in ExchangeHedgers, time \in BlockTimes,
          account \in Accounts :
          LET block == Block(time, FALSE)
          IN  /\ ~is_for_past(block)
              /\ account.totalMarginBalance = 0
              /\ rc' = Called(tenant, hedger, block, <<"futures_account">>,
                              "ArithmeticError", 0, <<>>)
    /\ UNCHANGED <<job, store, synchronizer, binance_income, stats_bot_message,
                   hedger_binance_snapshot, session_new>>

\* Lines 71 and 135: a query of the exchange raises; nothing is added.
prepare_hedger_binance_snapshot_live_io ==
    /\ session_new = {}
    /\ \E tenant \in ContextTenants, hedger \in ExchangeHedgers, time \in BlockTimes,
          failing \in 1..2 :
          LET block == Block(time, FALSE)
          IN  /\ ~is_for_past(block)
              /\ rc' = Called(tenant, hedger, block,
                              SubSeq(<<"futures_account", "futures_position_information">>,
                                     1, failing),
                              "RemoteIOError", 0, <<>>)
    /\ UNCHANGED <<job, store, synchronizer, binance_income, stats_bot_message,
                   hedger_binance_snapshot, session_new>>

\* Faulty variant: a past block without a message gets figures of zero
prepare_hedger_binance_snapshot_past_missing_zero ==
    /\ session_new = {}
    /\ \E tenant \in ContextTenants, hedger \in ExchangeHedgers, time \in BlockTimes :
          LET block == Block(time, TRUE)
              zero == [binance_maintenance_margin |-> Dec(0, 0),
                       binance_total_balance |-> Dec(0, 0),
                       binance_max_withdraw_amount |-> Dec(0, 0)]
          IN  /\ is_for_past(block)
              /\ stat_messages(tenant, block) = {}
              /\ session_new' = save(session_new, snapshot_of(tenant, hedger, block, zero))
              /\ rc' = Called(tenant, hedger, block, <<>>, "added", 0, <<>>)
    /\ UNCHANGED <<job, store, synchronizer, binance_income, stats_bot_message, hedger_binance_snapshot>>

\* Lines 82-93 for a block of the past with no message of the tenant in the
\* three minutes up to the block: line 93 raises; nothing is added.
prepare_hedger_binance_snapshot_past_missing ==
    /\ session_new = {}
    /\ \E tenant \in ContextTenants, hedger \in ExchangeHedgers, time \in BlockTimes :
          LET block == Block(time, TRUE)
          IN  /\ is_for_past(block)
              /\ stat_messages(tenant, block) = {}
              /\ rc' = Called(tenant, hedger, block, <<>>, "Exception", 0, <<>>)
    /\ UNCHANGED <<job, store, synchronizer, binance_income, stats_bot_message,
                   hedger_binance_snapshot, session_new>>

\* Lines 29-159 for a block of the past with a message in the window: the
\* query of lines 83-91 has no ORDER BY and session.scalar takes its first
\* row, any of the messages in the window; no query of the exchange; the
\* snapshot is added to the session without binance_next_funding_fee.
prepare_hedger_binance_snapshot_past ==
    /\ session_new = {}
    /\ \E tenant \in ContextTenants, hedger \in ExchangeHedgers, time \in BlockTimes :
          LET block == Block(time, TRUE)
          IN  /\ is_for_past(block)
              /\ \E stat_message \in stat_messages(tenant, block) :
                    /\ session_new' = save(session_new,
                                           snapshot_of(tenant, hedger, block,
                                                       past_fields(stat_message)))
                    /\ rc' = Called(tenant, hedger, block, <<>>, "added",
                                    stat_message.message_id, <<>>)
    /\ UNCHANGED <<job, store, synchronizer, binance_income, stats_bot_message, hedger_binance_snapshot>>

\* The rows of the session whose key is the key of a stored row.
conflicts ==
    {row \in session_new :
        \E stored \in hedger_binance_snapshot :
            HedgerBinanceSnapshot_pk(stored) = HedgerBinanceSnapshot_pk(row)}

\* The session is flushed (by the next query, or by session.commit at
\* snapshot_job.py 108): the pending rows are inserted.
flush ==
    /\ session_new # {}
    /\ conflicts = {}
    /\ hedger_binance_snapshot' = hedger_binance_snapshot \cup session_new
    /\ session_new' = {}
    /\ rc' = [rc EXCEPT !.outcome = "flushed"]
    /\ UNCHANGED <<job, store, synchronizer, binance_income, stats_bot_message>>

\* The session is flushed and a pending row has the key of a stored row: the
\* INSERT violates the key and the flush raises; the stored row stays.
flush_conflict ==
    /\ session_new # {}
    /\ conflicts # {}
    /\ session_new' = {}
    /\ rc' = [rc EXCEPT !.outcome = "IntegrityError"]
    /\ UNCHANGED <<job, store, synchronizer, binance_income, stats_bot_message, hedger_binance_snapshot>>

InitExchange ==
    /\ JobAtRest
    /\ EmptyStore
    /\ EmptySynchronizer
    /\ binance_income \in {rows \in SUBSET IncomeUniverse : Cardinality(rows) <= MaxIncomeRows}
    /\ stats_bot_message \in {rows \in SUBSET StatsUniverse : Cardinality(rows) <= MaxMessages}
    /\ hedger_binance_snapshot = {}
    /\ session_new = {}
    /\ rc = NoCall

NextExchange ==
    \/ prepare_hedger_binance_snapshot_live
    \/ prepare_hedger_binance_snapshot_live_zero
    \/ prepare_hedger_binance_snapshot_live_io
    \/ prepare_hedger_binance_snapshot_past_missing
    \/ prepare_hedger_binance_snapshot_past
    \/ flush
    \/ flush_conflict

\* Calls of the exchange reconciler over any mirror and any stored messages.
SpecExchange == InitExchange /\ [][NextExchange]_vars

\* --------------------------------------------------- the entity synchronizer
\* A call of the synchronizer for one entity type of the tenant begins: nothing
\* is requested yet.
sync_begin ==
    /\ call.state = "none"
    /\ \E tenant \in ContextTenants, entity \in Entities, start \in StartCursors,
          since \in Sinces :
          call' = [NoSync EXCEPT !.state = "running", !.tenant = tenant,
                                 !.entity = entity, !.since = since,
                                 !.origin = start, !.start = start, !.cursor = start,
                                 !.calls = 1, !.before = tables[entity]]
    /\ UNCHANGED <<job, store, exchange, remote, tables, pass>>

\* One turn of the loop: a page is requested, its records are upserted, the
\* cursor is advanced, and a page shorter than the page size ends the call.
sync_page ==
    /\ call.state = "running"
    /\ LET records == page(call.tenant, call.entity, call.cursor, call.since)
       IN  /\ tables' = [tables EXCEPT ![call.entity] =
                            upsert_all(@, call.entity, call.tenant, records)]
           /\ call' = [call EXCEPT
                         !.cursor = last_seen(call.entity, records, call.cursor),
                         !.requests = @ + 1,
                         !.upserts = @ + Len(records),
                         !.applied = @ \cup {int(records[i].id) : i \in 1..Len(records)},
                         !.state = IF Len(records) < PageSize THEN "returned"
                                   ELSE "running"]
    /\ UNCHANGED <<job, store, exchange, remote, pass>>

\* A page request fails (RemoteIOError): the call ends part-way, with the rows
\* of the pages applied so far stored.
sync_page_io ==
    /\ call.state = "running"
    /\ call' = [call EXCEPT !.state = "raised"]
    /\ UNCHANGED <<job, store, exchange, remote, tables, pass>>

\* The synchronizer is invoked again for the same entity type against the same
\* remote data: from the cursor the previous call started from, or, after a
\* call that ended part-way, from the cursor that call had reached.
sync_again ==
    /\ call.state \in {"returned", "raised"}
    /\ call.calls < MaxCalls
    /\ \E start \in {call.start}
                     \cup (IF call.state = "raised" THEN {call.cursor} ELSE {}) :
          call' = [call EXCEPT !.state = "running", !.start = start, !.cursor = start,
                               !.requests = 0, !.upserts = 0, !.applied = {},
                               !.calls = @ + 1, !.previous = call.state]
    /\ UNCHANGED <<job, store, exchange, remote, tables, pass>>

\* One tenant's indexer with any records; the tables of the entity types that
\* have an update time are empty or hold the row of an earlier pass.
InitSync ==
    /\ JobAtRest
    /\ EmptyStore
    /\ EmptyExchange
    /\ \E numbers \in SUBSET RecordNumbers :
          remote = [t \in Tenants |-> IF t \in ContextTenants THEN numbers ELSE {}]
    /\ \E stale \in BOOLEAN :
          tables = [entity \in Entities |->
                      IF stale /\ catch_up_field(entity) = "updateTimestamp"
                      THEN {StaleRow(entity, t) : t \in ContextTenants} ELSE {}]
    /\ call = NoSync
    /\ pass = [t \in Tenants |-> 1]

NextSync ==
    \/ sync_begin
    \/ sync_page
    \/ sync_page_io
    \/ sync_again

\* Calls of the entity synchronizer of one tenant against fixed remote data.
SpecSync == InitSync /\ [][NextSync]_vars

\* ------------------------------------------------ the sync passes of tenants
\* snapshot_job.py 48-54: the next SubgraphClient(context, Model).sync call of a
\* tenant's pass over a fresh database runs to its end (the pipelines of the
\* tenants are separate instances writing the same tables).
pass_sync ==
    \E tenant \in Tenants :
        /\ pass[tenant] <= Len(EntityOrder)
        /\ LET entity == EntityOrder[pass[tenant]]
           IN  tables' = [tables EXCEPT ![entity] = sync(@, tenant, entity, "0", 0).rows]
        /\ pass' = [pass EXCEPT ![tenant] = @ + 1]
        /\ UNCHANGED <<job, store, exchange, remote, call>>

\* Two tenants' indexers with any records, empty tables.
InitTenants ==
    /\ JobAtRest
    /\ EmptyStore
    /\ EmptyExchange
    /\ remote \in [Tenants -> SUBSET RecordNumbers]
    /\ tables = [entity \in Entities |-> {}]
    /\ call = NoSync
    /\ pass = [t \in Tenants |-> 1]

NextTenants == pass_sync

\* The first sync passes of two tenants, their calls interleaved in any order.
SpecTenants == InitTenants /\ [][NextTenants]_vars

\* ------------------------------------------------------------------ claims

\* C1: when a sync call of a pass fails with "only indexed up to block number
\* N", the handler reads the head again and persists snapshotBlockLag =
\* head - N before any further sync call; the restarted pass computes its
\* target as the head it reads minus that lag, and each of its sync calls runs
\* with that lag persisted.
C1_LagRecovery ==
    [][ /\ (pc = "except" /\ pc' = "sync_data") =>
              /\ e.kind = "lag"
              /\ cfg'.snapshotBlockLag = head - e.block
              /\ synced' = synced
        /\ (pc = "sync_data" /\ pc' = "sync" /\ restarts > 0) =>
              /\ cfg.snapshotBlockLag = lag
              /\ sync_block' = head - lag
        /\ (Len(synced') > Len(synced) /\ restarts > 0) =>
              /\ cfg.snapshotBlockLag = lag
              /\ usedLag = lag
              /\ synced'[Len(synced')].block = sync_block
      ]_vars

\* C1's case: after an error naming block 3, the restarted pass is syncing with
\* the lag 3 persisted by the recovery, at the head it read minus 3.
C1_Witness ==
    /\ pc = "sync"
    /\ restarts = 1
    /\ synced # <<>>
    /\ e.kind = "lag"
    /\ cfg.snapshotBlockLag = 3
    /\ usedLag = 3
    /\ e.block = 3
    /\ sync_block = head - 3

\* C2: when sync_data reports success after a restart, the pass that succeeded
\* synced all seven entity types, User first, each against the block returned.
C2_RestartResyncsAll ==
    (returned # 0 /\ restarts > 0) =>
        /\ Len(synced) = 7
        /\ synced[1].entity = "User"
        /\ {synced[i].entity : i \in 1..Len(synced)} =
              {"User", "Symbol", "Account", "BalanceChange", "Quote",
               "TradeHistory", "DailyHistory"}
        /\ \A i \in 1..Len(synced) : synced[i].block = returned

\* C2's case: the failed pass had synced entity types before the fifth one raised.
C2_Witness ==
    /\ returned # 0
    /\ restarts > 0
    /\ raisedAt = 5

\* C3: after sync_data has returned, and until the next run, lastSyncBlock is the
\* target of the pass that succeeded, which is the block returned, and
\* snapshotBlockLag is max(lag of that pass - step, floor); in a restarted pass
\* that lag is the one the last recovery set.
C3_SuccessPersists ==
    returned # 0 =>
        /\ returned = sync_block
        /\ cfg.lastSyncBlock = returned
        /\ cfg.snapshotBlockLag =
              (IF usedLag - SNAPSHOT_BLOCK_LAG_STEP >= SNAPSHOT_BLOCK_LAG
                  THEN usedLag - SNAPSHOT_BLOCK_LAG_STEP
                  ELSE SNAPSHOT_BLOCK_LAG)
        /\ (restarts > 0 => usedLag = lag)

\* C3's case: a run with two recoveries has succeeded and its snapshot pass has
\* run; the floor holds the lag.
C3_Witness ==
    /\ pc = "done"
    /\ get_snapshot
    /\ restarts = 2
    /\ lag = 2
    /\ cfg.snapshotBlockLag = 2
    /\ cfg.lastSyncBlock = returned

\* C4: with a chain head and an indexer that never go back, neither persisted
\* cursor ever decreases.
C4_CursorsMonotone ==
    [][ /\ cfg'.lastSyncBlock >= cfg.lastSyncBlock
        /\ cfg'.lastSnapshotBlock >= cfg.lastSnapshotBlock ]_vars

C6_RecursionGuarded == restarts < MaxRestarts

\* C7: a snapshot pass entered with lastSnapshotBlock >= the resolved block ends
\* with an error, runs no reconciler and leaves the persisted row as it was.
\* (An unset lastSnapshotBlock is 0 and every resolved block is at least 1.)
C7_StaleAborts ==
    [][ (pc = "do_fetch_snapshot" /\ cfg.lastSnapshotBlock >= returned) =>
            /\ pc' \in {"do_fetch_snapshot", "failed"}
            /\ (pc' = "failed" => raised' # "none")
            /\ ran' = <<>>
            /\ cfg' = cfg
      ]_vars

\* C7's case: lastSnapshotBlock equals the resolved block and the pass has ended
\* in an error with no reconciler run.
C7_Witness ==
    /\ pc = "failed"
    /\ raised = "TypeError"
    /\ cfg.lastSnapshotBlock = returned
    /\ ran = <<>>

\* The reconciler calls and refreshes a complete snapshot pass is made of.
C8_AllCalls ==
    {Call("affiliate", Affiliates[a], Hedgers[h]) :
        a \in 1..Len(Affiliates), h \in 1..Len(Hedgers)}
    \cup {Call("liquidator", Liquidators[l], "-") : l \in 1..Len(Liquidators)}
    \cup {Call("hedger", Hedgers[h], Hedgers[h]) : h \in 1..Len(Hedgers)}
    \cup {Call(k, Hedgers[h], Hedgers[h]) :
            k \in {"income", "hedger_binance"},
            h \in {i \in 1..Len(Hedgers) : ~CHAIN_ONLY /\ has_binance_keys(Hedgers[i])}}

\* C8: lastSnapshotBlock is written only once every call of the pass has
\* returned, and then to the resolved block's number; a call that raises ends
\* the pass with lastSnapshotBlock as it was, below the resolved block.
C8_SnapshotCursorLast ==
    [][ /\ (cfg'.lastSnapshotBlock # cfg.lastSnapshotBlock) =>
              /\ {ran[i] : i \in 1..Len(ran)} = C8_AllCalls
              /\ raised' = "none"
              /\ cfg'.lastSnapshotBlock = returned
        /\ (pc = "snapshot" /\ pc' = "failed") =>
              /\ cfg'.lastSnapshotBlock = cfg.lastSnapshotBlock
              /\ cfg'.lastSnapshotBlock < returned
      ]_vars

\* C8's case: the income-history refresh of h1 raised after four calls had
\* returned, and the earlier snapshot block is still the persisted one.
C8_Witness ==
    /\ pc = "failed"
    /\ raised = "ReconcilerError"
    /\ Len(ran) = 4
    /\ snapshot_calls[step].kind = "income"
    /\ cfg.lastSnapshotBlock # 0
    /\ cfg.lastSnapshotBlock < returned

\* C9: an error of a sync call that is not the indexer-lag error leaves
\* sync_data without a restart and with the persisted row as it was; so does a
\* failing chain read.
C9_OtherErrorsPropagate ==
    [][ /\ (pc = "except" /\ e.kind = "io") =>
              /\ pc' \in {"except", "failed"}
              /\ (pc' = "failed" => raised' = "RemoteIOError")
              /\ restarts' = restarts
              /\ cfg' = cfg
        /\ (raised = "none" /\ raised' = "RemoteIOError") =>
              /\ pc' = "failed"
              /\ restarts' = restarts
              /\ cfg' = cfg
      ]_vars

\* C9's case: in a restarted pass the third sync call raised an I/O error and
\* the run has ended with it, the cursor of an earlier run still persisted.
C9_Witness ==
    /\ pc = "failed"
    /\ raised = "RemoteIOError"
    /\ e.kind = "io"
    /\ raisedAt = 3
    /\ restarts = 1
    /\ cfg.lastSyncBlock # 0

\* C10: in every pass the sync calls are made in the order User, Symbol,
\* Account, BalanceChange, Quote, TradeHistory, DailyHistory, each type after
\* every type it refers to.
C10_SyncOrder ==
    \A i \in 1..Len(synced) :
        /\ synced[i].entity =
              <<"User", "Symbol", "Account", "BalanceChange", "Quote",
                "TradeHistory", "DailyHistory">>[i]
        /\ \A parent \in references(synced[i].entity) :
              \E j \in 1..(i - 1) : synced[j].entity = parent

\* C10's case: a restarted pass has made all seven calls.
C10_Witness ==
    /\ pc = "sync"
    /\ restarts = 1
    /\ Len(synced) = 7
\* C11: the snapshot pass is entered only from a sync_data that returned its
\* block and persisted it as lastSyncBlock, and only when context.get_snapshot
\* is set; a reconciler call returns, and lastSnapshotBlock is written, only
\* in such a run; a run whose sync_data raised, or that did not opt in, ends
\* with no reconciler call made and lastSnapshotBlock as it was.
C11_SnapshotAfterSync ==
    [][ /\ (pc # "do_fetch_snapshot" /\ pc' = "do_fetch_snapshot") =>
              /\ pc = "sync"
              /\ idx > Len(EntityOrder)
              /\ get_snapshot'
              /\ returned' = sync_block
              /\ cfg'.lastSyncBlock = returned'
        /\ (ran' # ran /\ ran' # <<>>) =>
              /\ get_snapshot
              /\ returned # 0
              /\ cfg.lastSyncBlock = returned
        /\ (cfg'.lastSnapshotBlock # cfg.lastSnapshotBlock) =>
              /\ get_snapshot
              /\ returned # 0
              /\ cfg.lastSyncBlock = returned
        /\ (pc' \in {"done", "failed"} /\ (returned' = 0 \/ ~get_snapshot')) =>
              /\ ran' = <<>>
              /\ cfg'.lastSnapshotBlock = cfg.lastSnapshotBlock
      ]_vars

\* C11's case: after a run that took a snapshot, a run synced a newer block
\* without opting in to the snapshot and ended with the earlier snapshot block.
C11_Witness ==
    /\ pc = "done"
    /\ ~get_snapshot
    /\ returned # 0
    /\ cfg.lastSyncBlock = returned
    /\ cfg.lastSnapshotBlock # 0
    /\ cfg.lastSnapshotBlock < returned
    /\ ran = <<>>

\* How many of the calls that returned in this pass are the call c.
C12_Times(c) == Cardinality({k \in 1..Len(ran) : ran[k] = c})

C13_RefreshBeforeReconcile ==
    /\ \A k \in 1..Len(ran) :
          ran[k].kind = "hedger_binance" =>
              /\ has_binance_keys(ran[k].name)
              /\ \E j \in 1..(k - 1) : ran[j] = Call("income", ran[k].name, ran[k].name)
    /\ (pc = "snapshot" /\ step <= Len(snapshot_calls)
            /\ snapshot_calls[step].kind = "hedger_binance") =>
          /\ ran # <<>>
          /\ ran[Len(ran)] = Call("income", snapshot_calls[step].name,
                                   snapshot_calls[step].name)

\* C13's case: the exchange reconciler of the hedger with keys has returned
\* and the pass is still under way.
C13_Witness ==
    /\ pc = "snapshot"
    /\ \E k \in 1..Len(ran) :
          /\ ran[k].kind = "hedger_binance"
          /\ has_binance_keys(ran[k].name)
    /\ step <= Len(snapshot_calls)

\* C14: snapshot rows are keyed by (tenant, actor name(s), timestamp): a write
\* of a snapshot row leaves every stored row of another tenant, another actor
\* or pair, or another timestamp in place, and after the affiliate snapshots
\* of a pass of one tenant at one block time the table holds one row of that
\* tenant at that time for every affiliate and every hedger, A*H rows.
C14_DistinctRows ==
    [][ /\ \A r \in affiliate_snapshot :
              \E w \in affiliate_snapshot' :
                  /\ w.tenant = r.tenant
                  /\ w.name = r.name
                  /\ w.hedger_name = r.hedger_name
                  /\ w.timestamp = r.timestamp
        /\ \A r \in hedger_snapshot :
              \E w \in hedger_snapshot' :
                  /\ w.tenant = r.tenant
                  /\ w.name = r.name
                  /\ w.timestamp = r.timestamp
        /\ (op'.kind = "affiliates") =>
              Cardinality({r \in affiliate_snapshot' :
                              r.tenant = op'.tenant /\ r.timestamp = op'.timestamp})
                  = Len(Affiliates) * Len(Hedgers)
      ]_vars

\* C15: writing a hedger snapshot is an idempotent upsert on (tenant, hedger,
\* block.time): when the snapshot of a call is written and a row with its key
\* is stored, the write raises no error and leaves the new row as the one
\* stored row of that key.
C15_IdempotentUpsert ==
    [][ (session_new # {} /\ session_new' = {}) =>
            /\ rc'.outcome # "IntegrityError"
            /\ \A row \in session_new :
                  /\ row \in hedger_binance_snapshot'
                  /\ \A stored \in hedger_binance_snapshot' :
                        HedgerBinanceSnapshot_pk(stored) = HedgerBinanceSnapshot_pk(row)
                            => stored = row
      ]_vars

\* C16: the binance_deposit of every snapshot is the sum of the tenant's and
\* hedger's TRANSFER and INTERNAL_TRANSFER rows up to the block's time, times
\* 10^18, plus binance_deposit_diff, whatever the sign of the sum.
C16_DepositBaseline ==
    \A row \in session_new \cup hedger_binance_snapshot :
        LET block == Block(row.timestamp, FALSE)
            total_transfers == transfer_sum(row.tenant, row.name, block)
                                 + internal_transfer_sum(row.tenant, row.name, block)
        IN  row.binance_deposit =
                DecAdd(e18(total_transfers), Dec(0, binance_deposit_diff(row.name)))

\* C17: a call for a block of the past with no StatsBotMessage of the tenant
\* in [block.time - 3 minutes, block.time] raises, makes no query of the
\* exchange and adds and stores no row; and every snapshot without live
\* figures has such a message.
C17_MissingFallbackRaises ==
    [][ /\ (rc' # rc /\ rc'.past /\ rc'.outcome \in {"added", "Exception"}
              /\ stat_messages(rc'.tenant, Block(rc'.time, TRUE)) = {}) =>
                /\ rc'.outcome = "Exception"
                /\ rc'.calls = <<>>
                /\ session_new' = {}
                /\ hedger_binance_snapshot' = hedger_binance_snapshot
        /\ \A row \in session_new' \cup hedger_binance_snapshot' :
              ("binance_next_funding_fee" \notin DOMAIN row) =>
                  stat_messages(row.tenant, Block(row.timestamp, TRUE)) # {}
      ]_vars

\* C17's case: a call for a past block raised although a message of another
\* tenant lies in the window and an older message of the tenant is stored.
C17_Witness ==
    /\ rc.past
    /\ rc.outcome = "Exception"
    /\ session_new = {}
    /\ \E m \in stats_bot_message :
          /\ m.tenant # rc.tenant
          /\ m.timestamp <= rc.time
          /\ m.timestamp >= rc.time - StatsWindow
    /\ \E m \in stats_bot_message :
          /\ m.tenant = rc.tenant
          /\ m.timestamp < rc.time - StatsWindow

\* C18: the snapshot of a past block has its account figures from the message
\* of the tenant with the greatest timestamp in the window.
C18_MostRecentFallback ==
    (rc.past /\ rc.outcome = "added") =>
        \E latest \in stat_messages(rc.tenant, Block(rc.time, TRUE)) :
            /\ \A m \in stat_messages(rc.tenant, Block(rc.time, TRUE)) :
                  m.timestamp <= latest.timestamp
            /\ rc.source = latest.message_id
            /\ \A row \in session_new :
                  row.binance_total_balance = latest.content["Total Margin Balance"]

RECURSIVE C19_Sum(_)
\* The sum over the positions with a notional other than zero of -notional * rate.
C19_Sum(positions) ==
    IF positions = <<>> THEN 0
    ELSE (IF Head(positions).notional # 0
             THEN 0 - (Head(positions).notional * Head(positions).fundingRate)
             ELSE 0)
         + C19_Sum(Tail(positions))

\* The part of C19 on blocks of the past: no query of the exchange, the
\* account figures of the message read, no next_funding_fee.
C19_PastFromFallback ==
    (rc.past /\ rc.outcome = "added") =>
        /\ rc.calls = <<>>
        /\ \A row \in session_new :
              /\ "binance_next_funding_fee" \notin DOMAIN row
              /\ \E m \in stat_messages(rc.tenant, Block(rc.time, TRUE)) :
                    /\ m.message_id = rc.source
                    /\ row.binance_maintenance_margin = m.content["Total Maint. Margin"]
                    /\ row.binance_total_balance = m.content["Total Margin Balance"]
                    /\ row.binance_max_withdraw_amount = m.content["Max Withdraw Amount"]

C20_LastWriteWins ==
    [][ ((op' # op \/ entities' # entities) /\ op'.kind = "user") =>
            LET row == User([id |-> op'.name, timestamp |-> op'.timestamp,
                             transaction |-> "0xa"], op'.tenant)
            IN  /\ row \in entities'
                /\ \A r \in entities' : r.id = row.id => r = row
                /\ \A r \in entities : r.id # row.id => r \in entities'
                /\ entities' \subseteq entities \cup {row}
                /\ op'.existed = (\E r \in entities : r.id = row.id)
                /\ Cardinality(entities')
                      = Cardinality(entities) + (IF op'.existed THEN 0 ELSE 1)
                /\ upsert(entities', User_pk, row) = entities'
      ]_vars

\* C20's case: a row was upserted whose id was stored, beside a row of another id.
C20_Witness ==
    /\ op.kind = "user"
    /\ op.existed
    /\ Cardinality(entities) = 2
    /\ \E r \in entities :
          /\ r.id = op.name
          /\ r.tenant = op.tenant
          /\ r.timestamp = op.timestamp
          /\ r.timestamp = MaxTime

\* C24: in every state reachable from a row with both cursors unset, by runs
\* that succeed, recover from indexer lag, fail in a sync call or in a
\* reconciler, with or without a snapshot pass, lastSnapshotBlock is at most
\* lastSyncBlock; and right after a run whose snapshot pass succeeded both
\* cursors equal the number of the block sync_data returned.
C24_SnapshotNotAheadOfSync ==
    /\ cfg.lastSnapshotBlock <= cfg.lastSyncBlock
    /\ (pc = "done" /\ get_snapshot) =>
          /\ cfg.lastSnapshotBlock = returned
          /\ cfg.lastSyncBlock = returned

\* C25: the recovery step of sync_data (the handler of the indexer-lag error)
\* changes nothing of the persisted row but snapshotBlockLag: lastSyncBlock and
\* lastSnapshotBlock are as before it; and lastSyncBlock is written only by a
\* pass in which all seven entity syncs returned, to that pass's block.
C25_RecoveryFrame ==
    [][ /\ (pc = "except" /\ pc' = "sync_data") =>
              /\ cfg'.lastSyncBlock = cfg.lastSyncBlock
              /\ cfg'.lastSnapshotBlock = cfg.lastSnapshotBlock
              /\ cfg'.snapshotBlockLag = lag'
        /\ (cfg'.lastSyncBlock # cfg.lastSyncBlock) =>
              /\ pc = "sync"
              /\ Len(synced) = Len(EntityOrder)
              /\ \A i \in 1..Len(EntityOrder) :
                    /\ synced[i].entity = EntityOrder[i]
                    /\ synced[i].block = cfg'.lastSyncBlock
      ]_vars

\* C25's case: a recovery of a later run has just raised the stored lag, and
\* both cursors are the ones the earlier run persisted.
C25_Witness ==
    /\ pc = "sync_data"
    /\ restarts = 1
    /\ cfg.snapshotBlockLag = lag
    /\ lag > usedLag
    /\ cfg.lastSyncBlock > 0
    /\ cfg.lastSnapshotBlock > 0
    /\ last_synced_block(e) # cfg.lastSyncBlock

\* The FUNDING_FEE income rows of one hedger of a tenant up to a time.
C26_FundingRows(tenant, hedger, time) ==
    {r \in binance_income :
        /\ r.type = "FUNDING_FEE"
        /\ r.tenant = tenant
        /\ r.hedger = hedger
        /\ r.timestamp <= time}

\* C26: in the snapshot of hedger H of tenant T at a block,
\* binance_paid_funding_fee is the sum of exactly the FUNDING_FEE income rows of
\* T and H with a negative amount and a timestamp up to the block's time, and
\* binance_received_funding_fee the sum of those with a positive amount; the
\* income rows of another hedger of the tenant do not contribute.
C26_FundingPerHedger ==
    \A s \in session_new \cup hedger_binance_snapshot :
        /\ s.binance_paid_funding_fee =
              sum_amount({r \in C26_FundingRows(s.tenant, s.name, s.timestamp) : r.amount < 0})
        /\ s.binance_received_funding_fee =
              sum_amount({r \in C26_FundingRows(s.tenant, s.name, s.timestamp) : r.amount > 0})

\* C21: whenever a call of the synchronizer has returned, be it the first call,
\* a second call from the same starting cursor after a call that returned, or a
\* call that follows one that ended part-way, the table holds the rows, and the
\* cursor the value, that one uninterrupted call from the first starting cursor
\* leaves, the remote data being the same throughout.
C21_Idempotent ==
    call.state = "returned" =>
        LET once == sync(call.before, call.tenant, call.entity, call.origin, call.since)
        IN  /\ tables[call.entity] = once.rows
            /\ call.cursor = once.cursor

\* C21's first case: a second call from the same cursor has returned after a
\* first one that returned, each having applied more than one page over a table
\* that held an earlier row.
C21_Witness ==
    /\ call.state = "returned"
    /\ call.calls = 2
    /\ call.previous = "returned"
    /\ call.start = call.origin
    /\ call.requests > 1
    /\ call.before # {}
    /\ tables[call.entity] # call.before

\* C21's second case: a call has returned that resumed, from the cursor reached,
\* after a call that ended part-way with a page applied.
C21_WitnessResumed ==
    /\ call.state = "returned"
    /\ call.calls = 2
    /\ call.previous = "raised"
    /\ call.start # call.origin
    /\ call.upserts > 0

\* C22: the synchronizer never issues more than floor(n/p) + 1 page requests
\* for n matching remote records and page size p; it stops after the first
\* page shorter than p, having issued exactly floor(n/p) + 1 requests and
\* performed exactly n upserts.
C22_PageCount ==
    LET n == Cardinality(matching(call.tenant, call.entity, call.start, call.since))
    IN  call.state # "none" =>
            /\ call.requests <= n \div PageSize + 1
            /\ call.state = "returned" =>
                  /\ call.requests = n \div PageSize + 1
                  /\ call.upserts = n

\* C27: when a call of the synchronizer has returned, every remote record that
\* satisfies the catch-up filter and lies after the starting cursor has been
\* upserted by it, also when records share a pagination value at the end of a
\* page.
C27_Complete ==
    call.state = "returned" =>
        matching(call.tenant, call.entity, call.start, call.since) \subseteq call.applied

\* C23: the stored primary key of every entity type is namespaced by the
\* tenant: a sync of one tenant never removes or overwrites a row of another
\* tenant, so that after any interleaving of the tenants' syncs the rows of
\* both are stored, also for records with the same remote id (for
\* DailyHistory, the same timestamp).
C23_TenantIsolation ==
    [][ \A entity \in Entities :
          \A r \in tables[entity] :
             \E kept \in tables'[entity] :
                /\ kept[pk_name(entity)] = r[pk_name(entity)]
                /\ kept.tenant = r.tenant
      ]_vars

\* C28 (first part): the value a child row stores in a reference column is
\* the id of the parent row built from the same remote parent id under the
\* same tenant.
C28_SameTagging ==
    \A t \in Tenants, child \in Entities, n \in RecordNumbers :
        \A c \in DOMAIN name_maps(child) :
            create_function(child, RemoteRecord(child, n), t)[c]
              = create_function(ForeignKey(c), RemoteRecord(ForeignKey(c), parent_of(n)), t).id

\* C28: reference columns are tagged with the tenant exactly as the ids they
\* refer to, and after a full pass of a tenant every reference of a child row
\* of the tenant whose parent exists in the tenant's remote data is the id of
\* a stored parent row.
C28_ReferencesResolve ==
    /\ C28_SameTagging
    /\ \A t \in Tenants :
          pass[t] > Len(EntityOrder) =>
             \A child \in Entities :
                \A r \in {x \in tables[child] : x.tenant = t} :
                   \A c \in DOMAIN name_maps(child) :
                      (\E n \in remote[t] :
                          create_function(ForeignKey(c), RemoteRecord(ForeignKey(c), n), t).id
                            = r[c])
                      => \E parent \in tables[ForeignKey(c)] : parent.id = r[c]

====
